---- MODULE Spec2Model ----
(***************************************************************************)
(* Model of the historical-data pipeline of backtest-sell-limit:           *)
(*   - fetchHistoricalTickerData (retry loop + response parser),           *)
(*   - saveHistoricalData (one upsert transaction per ticker),             *)
(*   - fetchAllHistoricalData / fillHistoricalDataHandler (worker pools),  *)
(*   - the gap-fill SQL script.                                            *)
(* The repository carries several copies of these functions; the copies    *)
(* are told apart by a "variant":                                          *)
(*   "web"  = cmd/web/main.go and the server copies (retry loop, no        *)
(*            adjclose length check, INSERT OR REPLACE, goroutine per      *)
(*            symbol),                                                     *)
(*   "main" = main.go (single HTTP attempt, full envelope checks,          *)
(*            INSERT OR REPLACE with early return on empty data, pool of   *)
(*            numWorkers),                                                 *)
(*   "conflict" = the older server copy of saveHistoricalData              *)
(*            (INSERT ... ON CONFLICT DO UPDATE).                          *)
(* Specifications: SpecFetch (one fetch and its job), SpecStore            *)
(* (concurrent saveHistoricalData calls, step by step), SpecGap (gap-fill  *)
(* sessions among committing calls), SpecBatch (a batch of jobs).          *)
(***************************************************************************)
EXTENDS Integers, Sequences, FiniteSets, TLC

\* ---------------------------------------------------------------- constants
maxRetries == 3
StatusOK == 200
StatusTooManyRequests == 429
Second == 1000
InterRequestDelay == 100
SecondsPerDay == 86400

\* ------------------------------------------------------------------- bounds
MaxLen == 2

Symbols == {"AAPL", "SPXL"}

\* An HTTP attempt (client.Do) either fails at transport level or returns a
\* response with a status code.
TransportFailure == [err |-> TRUE, StatusCode |-> 0]
HTTPResponse(code) == [err |-> FALSE, StatusCode |-> code]
StatusCodes == {StatusOK, StatusTooManyRequests, 404, 500}
Outcomes == {TransportFailure} \cup {HTTPResponse(c) : c \in StatusCodes}

NilResp == [isNil |-> TRUE, StatusCode |-> 0]
Resp(code) == [isNil |-> FALSE, StatusCode |-> code]

\* ------------------------------------------------------- vendor JSON bodies
\* The parallel arrays of the vendor payload.  The value at index i of the
\* array with tag t is t*10+i, so that every (array, index) pair is
\* recognisable in the emitted bars.
Tag == [Open |-> 1, High |-> 2, Low |-> 3, Close |-> 4, Volume |-> 5, Adjclose |-> 6]
MkArr(tag, n) == [i \in 1..n |-> tag * 10 + i]
MkTimestamps(n) == [i \in 1..n |-> i * SecondsPerDay]

Lens == 0..MaxLen

QuoteSeries == { [Open |-> MkArr(Tag.Open, a), High |-> MkArr(Tag.High, b),
                  Low |-> MkArr(Tag.Low, c), Close |-> MkArr(Tag.Close, d),
                  Volume |-> MkArr(Tag.Volume, e)] :
                 a \in Lens, b \in Lens, c \in Lens, d \in Lens, e \in Lens }
AdjcloseSeries == { [Adjclose |-> MkArr(Tag.Adjclose, n)] : n \in Lens }

\* chart.result[0]: Quote and Adjclose are slices holding zero or one series.
Results == { [Timestamp |-> MkTimestamps(n), Quote |-> q, Adjclose |-> a] :
             n \in Lens,
             q \in {<<>>} \cup { <<s>> : s \in QuoteSeries },
             a \in {<<>>} \cup { <<s>> : s \in AdjcloseSeries } }

NoResult == <<>>
Body(kind, error, result) == [kind |-> kind, Error |-> error, Result |-> result]
NoBody == Body("none", FALSE, NoResult)
\* kind "readerr": io.ReadAll / gzip failed; "badjson": json.Unmarshal failed;
\* "json": a decoded envelope with chart.error (non-null iff Error) and
\* chart.result.
FullResult == [Timestamp |-> MkTimestamps(MaxLen),
               Quote |-> << [Open |-> MkArr(Tag.Open, MaxLen), High |-> MkArr(Tag.High, MaxLen),
                             Low |-> MkArr(Tag.Low, MaxLen), Close |-> MkArr(Tag.Close, MaxLen),
                             Volume |-> MkArr(Tag.Volume, MaxLen)] >>,
               Adjclose |-> << [Adjclose |-> MkArr(Tag.Adjclose, MaxLen)] >>]
Bodies == { Body("readerr", FALSE, NoResult), Body("badjson", FALSE, NoResult) }
          \cup { Body("json", e, NoResult) : e \in BOOLEAN }
          \cup { Body("json", FALSE, <<r>>) : r \in Results }
          \cup { Body("json", TRUE, <<FullResult>>) }


\* ------------------------------------------------ fetchHistoricalTickerData
\* State of one call.  closes[k] counts the Close calls on the body of the
\* k-th HTTP response received; the response held in resp is the last one.
\* slept lists the time.Sleep durations in milliseconds.
NoData == <<>>
FetchStart(v, ticker) ==
    [variant |-> v, ticker |-> ticker, pc |-> "loop", i |-> 0, attempts |-> 0,
     resp |-> NilResp, closes |-> <<>>, slept |-> <<>>, deferred |-> FALSE,
     body |-> NoBody, err |-> "", data |-> NoData, panicked |-> FALSE]

CloseBody(st) ==
    [st EXCEPT !.closes = [@ EXCEPT ![Len(@)] = @ + 1]]

\* A return statement: the deferred resp.Body.Close() runs, then the caller
\* gets (data, err).
Return(st, data, err) ==
    LET st1 == IF st.deferred THEN CloseBody(st) ELSE st
    IN [st1 EXCEPT !.pc = "done", !.data = data, !.err = err]

\* A run-time panic (nil dereference, index out of range).  Nothing in the
\* call chain recovers it.
Panic(st) == [st EXCEPT !.pc = "done", !.panicked = TRUE]

Sleep(st, ms) == [st EXCEPT !.slept = Append(@, ms)]

\* client.Do(req): counts the attempt and sets resp.
Do(st, out) ==
    [st EXCEPT !.attempts = @ + 1,
               !.resp = IF out.err THEN NilResp ELSE Resp(out.StatusCode),
               !.closes = IF out.err THEN @ ELSE Append(@, 0)]

\* "continue": i++ and the loop condition i < maxRetries; leaving the loop
\* falls through to the code after it.
ContinueAsBreak(st) == [st EXCEPT !.i = @ + 1, !.pc = "read"]
ContinueFreeOn429(st) ==
    IF ~st.resp.isNil THEN [st EXCEPT !.pc = "loop"]
    ELSE [st EXCEPT !.i = @ + 1,
                    !.pc = IF st.i + 1 < maxRetries THEN "loop" ELSE "read"]
Continue(st) ==
    [st EXCEPT !.i = @ + 1,
               !.pc = IF st.i + 1 < maxRetries THEN "loop" ELSE "read"]

ErrTransport == "failed to fetch data after 3 retries"
ErrRateLimit == "rate limit exceeded after 3 retries"
ErrStatus(code) == "API request failed with status " \o ToString(code)
ErrStatusMain(ticker, code) ==
    "API request failed for " \o ticker \o ": status " \o ToString(code)

\* "if i == maxRetries-1": the attempt with loop index i is the last one.
LastAttemptOffByOne(i) == i = maxRetries
LastAttempt(i) == i = maxRetries - 1

\* "if resp.StatusCode == 429": the one status that is retried.
RateLimitedOrNotFound(code) == code \in {StatusTooManyRequests, 404}
RateLimited(code) == code = StatusTooManyRequests

AttemptWebUniformBackoff(st, out) ==
    LET s1 == Do(st, out)
    IN IF out.err
       THEN IF LastAttempt(st.i)
            THEN Return(s1, NoData, ErrTransport)
            ELSE Continue(Sleep(s1, (st.i + 1) * Second))
       ELSE IF RateLimited(out.StatusCode)
       THEN IF LastAttempt(st.i)
            THEN Return(s1, NoData, ErrRateLimit)
            ELSE Continue(CloseBody(Sleep(s1, (st.i + 1) * Second)))
       ELSE IF out.StatusCode # StatusOK
       THEN Return(CloseBody(s1), NoData, ErrStatus(out.StatusCode))
       ELSE [s1 EXCEPT !.pc = "read"]

\* One iteration of the retry loop of cmd/web/main.go.
AttemptWeb(st, out) ==
    LET s1 == Do(st, out)
    IN IF out.err
       THEN IF LastAttempt(st.i)
            THEN Return(s1, NoData, ErrTransport)
            ELSE Continue(Sleep(s1, (st.i + 1) * Second))
       ELSE IF RateLimited(out.StatusCode)
       THEN IF LastAttempt(st.i)
            THEN Return(s1, NoData, ErrRateLimit)
            ELSE Continue(CloseBody(Sleep(s1, (st.i + 1) * 2 * Second)))
       ELSE IF out.StatusCode # StatusOK
       THEN Return(CloseBody(s1), NoData, ErrStatus(out.StatusCode))
       ELSE [s1 EXCEPT !.pc = "read"]

\* main.go: one client.Do, defer resp.Body.Close(), status check.
ErrFetchMain == "failed to fetch data"
AttemptMain(st, out) ==
    LET s1 == Do(st, out)
    IN IF out.err
       THEN Return(s1, NoData, ErrFetchMain)
       ELSE LET s2 == [s1 EXCEPT !.deferred = TRUE]
            IN IF out.StatusCode # StatusOK
               THEN Return(s2, NoData, ErrStatusMain(st.ticker, out.StatusCode))
               ELSE [s2 EXCEPT !.pc = "read"]

Attempt(st, out) ==
    IF st.variant = "main" THEN AttemptMain(st, out) ELSE AttemptWeb(st, out)

\* After the loop of cmd/web/main.go: defer resp.Body.Close() evaluates
\* resp.Body, which dereferences resp.
DeferClose(st) ==
    IF st.resp.isNil THEN Panic(st)
    ELSE [st EXCEPT !.deferred = TRUE]

ErrRead == "failed to read response"
ErrJSON == "failed to parse JSON"
ErrAPI == "API error"
ErrNoData == "no data returned"
ErrNoQuote == "no quote data returned"
ErrNoTimestamps == "no timestamps returned"
ErrNoPrice == "no price data returned"

\* gzip.NewReader / io.ReadAll, then json.Unmarshal into the envelope struct.
\* In cmd/web/main.go the deferred Close is registered here, after the loop;
\* in main.go it was registered right after client.Do.
ReadBody(st, body) ==
    LET s1 == IF st.variant = "main" THEN st ELSE DeferClose(st)
    IN IF s1.panicked THEN s1
       ELSE IF body.kind = "readerr" THEN Return(s1, NoData, ErrRead)
       ELSE IF body.kind = "badjson" THEN Return(s1, NoData, ErrJSON)
       ELSE [s1 EXCEPT !.body = body, !.pc = "parse"]

\* A types.HistoricalData value.  Date is a time.Time, represented by its
\* Unix seconds: time.Unix(ts, 0).Unix() = ts.
HistoricalData(ticker, ts, o, h, l, c, a, v) ==
    [Symbol |-> ticker, Date |-> ts, Open |-> o, High |-> h, Low |-> l,
     Close |-> c, AdjClose |-> a, Volume |-> v]

\* Slice indexing s[i] (0-based in Go, 1-based here): within 1..Len(s), or a
\* run-time panic.
InRange(s, i) == i \in 1..Len(s)

\* The guard of the zip loop: "continue" when i is past the end of any of
\* the six value arrays.
SkipIgnoringAdjclose(quote, adjclose, i) ==
    \/ i > Len(quote.Open) \/ i > Len(quote.High) \/ i > Len(quote.Low)
    \/ i > Len(quote.Close) \/ i > Len(quote.Volume)
Skip(quote, adjclose, i) ==
    \/ i > Len(quote.Open) \/ i > Len(quote.High) \/ i > Len(quote.Low)
    \/ i > Len(quote.Close) \/ i > Len(quote.Volume)
    \/ i > Len(adjclose.Adjclose)

ReadsInRange(quote, adjclose, i) ==
    /\ InRange(quote.Open, i) /\ InRange(quote.High, i) /\ InRange(quote.Low, i)
    /\ InRange(quote.Close, i) /\ InRange(quote.Volume, i)
    /\ InRange(adjclose.Adjclose, i)

\* for i, ts := range result.Timestamp { ... append ... }
\* acc = [data, panicked]
RECURSIVE ZipLoop(_, _, _, _, _, _)
ZipLoop(ticker, timestamp, quote, adjclose, i, acc) ==
    IF i > Len(timestamp) THEN acc
    ELSE IF Skip(quote, adjclose, i)
    THEN ZipLoop(ticker, timestamp, quote, adjclose, i + 1, acc)
    ELSE IF ~ReadsInRange(quote, adjclose, i)
    THEN [acc EXCEPT !.panicked = TRUE]
    ELSE ZipLoop(ticker, timestamp, quote, adjclose, i + 1,
                 [acc EXCEPT !.data = Append(@,
                     HistoricalData(ticker, timestamp[i], quote.Open[i], quote.High[i],
                                    quote.Low[i], quote.Close[i],
                                    adjclose.Adjclose[i], quote.Volume[i]))])

Zip(st, result) ==
    ZipLoop(st.ticker, result.Timestamp, result.Quote[1], result.Adjclose[1], 1,
            [data |-> NoData, panicked |-> FALSE])

\* cmd/web/main.go: envelope checks, then the zip loop and the fixed delay.
ParseWeb(st) ==
    LET b == st.body
    IN IF b.Error THEN Return(st, NoData, ErrAPI)
       ELSE IF Len(b.Result) = 0 THEN Return(st, NoData, ErrNoData)
       ELSE LET result == b.Result[1]
            IN IF Len(result.Quote) = 0 THEN Return(st, NoData, ErrNoQuote)
               ELSE IF ~InRange(result.Adjclose, 1) THEN Panic(st)
               ELSE LET z == Zip(st, result)
                    IN IF z.panicked THEN Panic(st)
                       ELSE Return(Sleep(st, InterRequestDelay), z.data, "")

\* main.go: the same with the timestamp and adjclose checks, and no delay.
ParseMain(st) ==
    LET b == st.body
    IN IF b.Error THEN Return(st, NoData, ErrAPI)
       ELSE IF Len(b.Result) = 0 THEN Return(st, NoData, ErrNoData)
       ELSE LET result == b.Result[1]
            IN IF Len(result.Timestamp) = 0 THEN Return(st, NoData, ErrNoTimestamps)
               ELSE IF Len(result.Quote) = 0 \/ Len(result.Adjclose) = 0
               THEN Return(st, NoData, ErrNoPrice)
               ELSE LET z == Zip(st, result)
                    IN IF z.panicked THEN Panic(st)
                       ELSE Return(st, z.data, "")

ParseIgnoringError(st) ==
    LET s1 == [st EXCEPT !.body.Error = FALSE]
    IN [(IF st.variant = "main" THEN ParseMain(s1) ELSE ParseWeb(s1))
          EXCEPT !.body = st.body]
Parse(st) == IF st.variant = "main" THEN ParseMain(st) ELSE ParseWeb(st)

\* ---------------------------------------------------- stock_historical_data
\* A table is a bag (multiset) of rows: SQL tables may hold equal rows, and
\* only the PRIMARY KEY (symbol, date) check of each statement keeps keys
\* unique.  Prices are scaled integers.  Null is SQL NULL.
Null == 0 - 1
DBs == {"BacktestDB", "SPXLBacktestDB"}

Row(symbol, date, open, high, low, close, adj_close, volume) ==
    [symbol |-> symbol, date |-> date, open |-> open, high |-> high, low |-> low,
     close |-> close, adj_close |-> adj_close, volume |-> volume]

EmptyTable == <<>>
Rows(table) == DOMAIN table
RowCount(table) ==
    LET RECURSIVE Sum(_)
        Sum(S) == IF S = {} THEN 0
                  ELSE LET r == CHOOSE x \in S : TRUE IN table[r] + Sum(S \ {r})
    IN Sum(DOMAIN table)

\* SQL comparisons: a comparison with NULL is never true.
SqlEq(a, b) == a # Null /\ b # Null /\ a = b
SqlLt(a, b) == a # Null /\ b # Null /\ a < b

\* The rows a new row (symbol, date) collides with under PRIMARY KEY
\* (symbol, date).  SQLite lets NULL into such a key and NULLs never collide.
Conflicts(table, symbol, date) ==
    { r \in DOMAIN table : r.symbol = symbol /\ SqlEq(r.date, date) }

InsertRow(table, row) ==
    IF row \in DOMAIN table THEN [table EXCEPT ![row] = @ + 1]
    ELSE [r \in DOMAIN table \cup {row} |-> IF r = row THEN 1 ELSE table[r]]

DeleteRows(table, S) == [r \in DOMAIN table \ S |-> table[r]]

\* INSERT OR REPLACE INTO stock_historical_data ... VALUES (?, ...):
\* the conflicting rows are deleted, then the row is inserted.
InsertIgnoringKey(table, row) == InsertRow(table, row)
ReplaceSymbolRows(table, row) ==
    InsertRow(DeleteRows(table, { r \in DOMAIN table : r.symbol = row.symbol }), row)
InsertOrReplace(table, row) ==
    InsertRow(DeleteRows(table, Conflicts(table, row.symbol, row.date)), row)

\* INSERT ... ON CONFLICT(symbol, date) DO UPDATE SET open = excluded.open, ...
\* (the older server copy): the conflicting row keeps its key and takes every
\* other column from the new row.
InsertOnConflictUpdate(table, row) ==
    LET C == Conflicts(table, row.symbol, row.date)
    IN IF C = {} THEN InsertRow(table, row)
       ELSE LET RECURSIVE Upd(_, _)
                Upd(S, t) ==
                    IF S = {} THEN t
                    ELSE LET r == CHOOSE x \in S : TRUE
                             u == [r EXCEPT !.open = row.open, !.high = row.high,
                                            !.low = row.low, !.close = row.close,
                                            !.adj_close = row.adj_close,
                                            !.volume = row.volume]
                             RECURSIVE Put(_, _)
                             Put(n, tt) == IF n = 0 THEN tt ELSE Put(n - 1, InsertRow(tt, u))
                         IN Upd(S \ {r}, Put(table[r], t))
            IN Upd(C, DeleteRows(table, C))

\* tx.Rollback(): the table of the store once the open transaction, whose
\* working copy is work, was rolled back.
RollbackKeepsWrites(committed, work) == work
Rollback(committed, work) == committed

\* tx.Commit() succeeding.
Commit(committed, work) == work

SaveVariants == {"web", "main", "conflict"}

\* stmt.Exec(symbol, hd.Date.Unix(), hd.Open, ...) for one bar.  The server
\* copies bind the symbol parameter, main.go binds d.Symbol.
ExecArgs(variant, symbol, hd) ==
    Row(IF variant = "main" THEN hd.Symbol ELSE symbol, hd.Date, hd.Open, hd.High,
        hd.Low, hd.Close, hd.AdjClose, hd.Volume)

UpsertKeepsExisting(variant, table, symbol, hd) ==
    LET row == ExecArgs(variant, symbol, hd)
    IN IF Conflicts(table, row.symbol, row.date) # {} THEN table
       ELSE InsertRow(table, row)
Upsert(variant, table, symbol, hd) ==
    IF variant = "conflict"
    THEN InsertOnConflictUpdate(table, ExecArgs(variant, symbol, hd))
    ELSE InsertOrReplace(table, ExecArgs(variant, symbol, hd))

\* The table after every bar of data was executed in order (t is the table
\* after the first bar).
RECURSIVE ExecAll(_, _, _, _)
ExecAll(variant, table, symbol, data) ==
    IF data = <<>> THEN table
    ELSE CHOOSE end \in { ExecAll(variant, t, symbol, Tail(data)) :
                           t \in {Upsert(variant, table, symbol, Head(data))} } : TRUE

\* --------------------------------------------------- saveHistoricalData
\* The call as one atomic step, for callers that only see its return value.
\* failure is the error the environment injects ("" for none): Begin, Prepare,
\* an Exec or Commit failing.  The transaction commits every bar or none
\* (the step-by-step model is SaveBegin .. SaveCommit below).
ErrBegin == "failed to begin transaction"
ErrPrepare == "failed to prepare statement"
ErrInsert == "failed to insert historical data"
ErrCommit == "failed to commit transaction"
SaveFailures == {ErrBegin, ErrPrepare, ErrInsert, ErrCommit}

SaveCall(variant, table, symbol, data, failure) ==
    IF variant = "main" /\ Len(data) = 0 THEN [table |-> table, err |-> ""]
    ELSE IF failure # "" /\ (failure # ErrInsert \/ Len(data) > 0)
    THEN [table |-> table, err |-> failure]
    ELSE [table |-> ExecAll(variant, table, symbol, data), err |-> ""]

\* ------------------------------------------------------ one job of a batch
\* The body a worker runs for one symbol, after fetchHistoricalTickerData
\* returned st: fillHistoricalDataHandler's goroutine ("web") and the worker
\* loop body of fetchAllHistoricalData ("main").
TableNames == {"sp500_tickers", "spxl_tickers"}

\* The store the server's handler reads the symbols of a source table from.
DbToUse(tableName) ==
    IF tableName = "spxl_tickers" THEN "SPXLBacktestDB" ELSE "BacktestDB"

\* Destination store of the server copy; main.go has the one db handle.
DbToSaveByTableOnly(variant, tableName, s) ==
    IF variant = "web" /\ tableName = "spxl_tickers"
    THEN "SPXLBacktestDB" ELSE "BacktestDB"
DbToSave(variant, tableName, s) ==
    IF variant = "web" /\ (tableName = "spxl_tickers" \/ s = "SPXL")
    THEN "SPXLBacktestDB" ELSE "BacktestDB"

Success(s) == [symbol |-> s, err |-> ""]
Failure(s, err) == [symbol |-> s, err |-> err]
WrapFetchAsSave(variant, err) ==
    IF variant = "web" THEN "failed to save data: " \o err ELSE err
WrapFetch(variant, err) == IF variant = "web" THEN "failed to fetch data: " \o err ELSE err
WrapSave(variant, err) == IF variant = "web" THEN "failed to save data: " \o err ELSE err

\* Returns the stores after the job and the result it sends.
JobBody(st, tableName, stores, failure) ==
    IF st.err # ""
    THEN [stores |-> stores, result |-> Failure(st.ticker, WrapFetch(st.variant, st.err))]
    ELSE LET db == DbToSave(st.variant, tableName, st.ticker)
             r == SaveCall(st.variant, stores[db], st.ticker, st.data, failure)
         IN IF r.err # ""
            THEN [stores |-> stores,
                  result |-> Failure(st.ticker, WrapSave(st.variant, r.err))]
            ELSE [stores |-> [stores EXCEPT ![db] = r.table],
                  result |-> Success(st.ticker)]

\* ===================================================================== state
VARIABLES
    fetch,      \* the state of one fetchHistoricalTickerData call
    hist,       \* the outcomes of its HTTP attempts so far (history)
    job,        \* the job running that call: [pc, tableName, result]
    store,      \* store[db]: the committed stock_historical_data of db
    svariant,   \* the copy of saveHistoricalData the process runs
    txs,        \* txs[t]: the saveHistoricalData call of caller t
    wal,        \* wal[db]: the open write transaction of db: [owner, table]
    gap,        \* each run of the gap-fill script: [pc, all_dates, missing_data]
    last,       \* the latest committed batch and its repetitions (history)
    calls,      \* [save, gap]: calls started so far
    batch       \* one batch: its jobs, workers, results and summary

fetchVars == <<fetch, hist, job, batch>>
txVars == <<svariant, txs, wal, gap, last, calls>>
vars == <<fetch, hist, job, store, svariant, txs, wal, gap, last, calls, batch>>

NoResultYet == [symbol |-> "", err |-> ""]
EmptyStores == [db \in DBs |-> EmptyTable]

\* Callers of saveHistoricalData that may run at the same time.
Callers == {1, 2}
\* Callers are interchangeable: the others call only while the first one is in
\* a call.
FirstCaller == CHOOSE t \in Callers : \A u \in Callers : t <= u
InCall(tx) == tx.pc \in {"begun", "exec"}
NoOwner == FirstCaller - 1
IdleTx == [pc |-> "idle", db |-> "BacktestDB", symbol |-> "", n |-> 0,
           data |-> NoData, err |-> ""]
NoWal == [owner |-> NoOwner, table |-> EmptyTable]
\* The sessions that may run the gap-fill script; each has its own temporary
\* tables.
Sessions == {1, 2}
\* Sessions are interchangeable: the others run only while the first one does.
FirstSession == CHOOSE g \in Sessions : \A h \in Sessions : g <= h
IdleSession == [pc |-> "idle", all_dates |-> {}, missing_data |-> {}]
IdleGap == [g \in Sessions |-> IdleSession]
NoLast == [symbol |-> "", data |-> NoData, count |-> 0, first |-> EmptyTable,
           same |-> TRUE]

NoSummary == [processed |-> 0 - 1]
IdleBatch == [variant |-> "web", tableName |-> "", symbols |-> <<>>, vendor |-> <<>>,
              pc |-> "idle", next |-> 0, closed |-> FALSE, queue |-> <<>>,
              running |-> {}, idle |-> 0, exited |-> 0, taken |-> <<>>,
              results |-> <<>>, sent |-> <<>>, closes |-> 0, summary |-> NoSummary,
              err |-> "", rejections |-> 0, fromTable |-> FALSE, source |-> ""]

\* The persistence machinery at rest (specifications that do not run it).
TxIdle ==
    /\ svariant = "web"
    /\ txs = [t \in Callers |-> IdleTx]
    /\ wal = [db \in DBs |-> NoWal]
    /\ gap = IdleGap
    /\ last = NoLast
    /\ calls = [save |-> 0, gap |-> 0]

\* ------------------------------------------------- one fetch call (SpecFetch)
FetchVariants == {"web", "main"}

InitFetch ==
    /\ fetch \in { FetchStart(v, t) : v \in FetchVariants, t \in Symbols }
    /\ hist = <<>>
    /\ job \in { [pc |-> "fetching", tableName |-> n, result |-> NoResultYet] :
                  n \in TableNames }
    /\ store = EmptyStores
    /\ TxIdle
    /\ batch = IdleBatch

FetchAttempt ==
    /\ fetch.pc = "loop"
    /\ \E out \in Outcomes :
          /\ fetch' = Attempt(fetch, out)
          /\ hist' = Append(hist, out)
    /\ UNCHANGED <<job, store, txVars, batch>>

FetchReadBody ==
    /\ fetch.pc = "read"
    /\ \E body \in Bodies : fetch' = ReadBody(fetch, body)
    /\ UNCHANGED <<hist, job, store, txVars, batch>>

FetchParse ==
    /\ fetch.pc = "parse"
    /\ fetch' = Parse(fetch)
    /\ UNCHANGED <<hist, job, store, txVars, batch>>

\* The fetch returned: the job saves and reports.  A panic inside the fetch
\* is recovered by nobody and ends the process.
JobFinish ==
    /\ fetch.pc = "done"
    /\ job.pc = "fetching"
    /\ IF fetch.panicked
       THEN /\ job' = [job EXCEPT !.pc = "crashed"]
            /\ store' = store
       ELSE \E failure \in SaveFailures \cup {""} :
               LET r == JobBody(fetch, job.tableName, store, failure)
               IN /\ job' = [job EXCEPT !.pc = "done", !.result = r.result]
                  /\ store' = r.stores
    /\ UNCHANGED <<fetch, hist, txVars, batch>>

NextFetch == FetchAttempt \/ FetchReadBody \/ FetchParse \/ JobFinish

SpecFetch == InitFetch /\ [][NextFetch]_vars




\* ---------------------------------------- the store under load (SpecStore)
\* Callers run saveHistoricalData step by step, possibly at the same time.
\* SQLite has one writer per database: the first Exec of a transaction takes
\* the write lock and holds it until Commit or Rollback; a statement that
\* finds the lock taken waits, or gives up with a "database is locked" error.
MaxBars == 2
MaxCalls == 2
MaxGapRuns == 2

\* Vendor timestamps: two UTC midnights and one 13:30 UTC market open.
StoreDates == {SecondsPerDay, 2 * SecondsPerDay + 48600, 3 * SecondsPerDay}
Versions == {1, 2}
\* The value the vendor's payload version v has for the field tag.
VendorValue(v, tag) == v * 10 + tag
\* The bars a batch for symbol may hold.
Bars(symbol) ==
    { HistoricalData(symbol, d, VendorValue(v, Tag.Open), VendorValue(v, Tag.High),
                     VendorValue(v, Tag.Low), VendorValue(v, Tag.Close),
                     VendorValue(v, Tag.Adjclose), VendorValue(v, Tag.Volume)) :
        d \in StoreDates, v \in Versions }

IdleFetch == [FetchStart("web", "AAPL") EXCEPT !.pc = "idle"]
IdleJob == [pc |-> "idle", tableName |-> "sp500_tickers", result |-> NoResultYet]
FetchIdle == fetch = IdleFetch /\ hist = <<>> /\ job = IdleJob

InitStore ==
    /\ FetchIdle
    /\ batch = IdleBatch
    /\ store = EmptyStores
    /\ svariant \in SaveVariants
    /\ txs = [t \in Callers |-> IdleTx]
    /\ wal = [db \in DBs |-> NoWal]
    /\ gap = IdleGap
    /\ last = NoLast
    /\ calls = [save |-> 0, gap |-> 0]

\* The call returned err.
Returned(tx, err) == [tx EXCEPT !.pc = "done", !.err = err]

\* The deferred (or explicit) tx.Rollback() of caller t on db.
Release(w, db, t) == IF w[db].owner = t THEN [w EXCEPT ![db] = NoWal] ELSE w
RolledBack(st, w, db, t) ==
    IF w[db].owner = t
    THEN [st EXCEPT ![db] = Rollback(st[db], w[db].table)]
    ELSE st

\* The history of repeated batches: a commit of the batch that was committed
\* last, on a table nobody changed since, is one more run of that batch;
\* same tells whether it left the table as the first run had.
NextLast(l, symbol, data, before, after) ==
    IF l.count > 0 /\ l.symbol = symbol /\ l.data = data /\ l.first = before
    THEN [l EXCEPT !.count = @ + 1, !.same = (after = l.first)]
    ELSE [symbol |-> symbol, data |-> data, count |-> 1, first |-> after,
          same |-> TRUE]

\* The call and db.Begin().  The batch has n bars; which bars is settled as
\* the loop reaches them (tx.data is the part executed so far).  main.go
\* returns nil before anything else when the batch is empty.
SaveBegin(t) ==
    /\ txs[t].pc \in {"idle", "done"}
    /\ calls.save < MaxCalls
    /\ t = FirstCaller \/ InCall(txs[FirstCaller])
    /\ \E symbol \in Symbols, n \in 0..MaxBars, ok \in BOOLEAN :
         LET tx == [pc |-> "begun", db |-> "BacktestDB", symbol |-> symbol,
                    n |-> n, data |-> NoData, err |-> ""]
         IN txs' = [txs EXCEPT ![t] =
                      IF svariant = "main" /\ n = 0 THEN Returned(tx, "")
                      ELSE IF ~ok THEN Returned(tx, ErrBegin)
                      ELSE tx]
    /\ calls' = [calls EXCEPT !.save = @ + 1]
    /\ UNCHANGED <<fetchVars, store, svariant, wal, gap, last>>

\* tx.Prepare(...)
SavePrepare(t) ==
    /\ txs[t].pc = "begun"
    /\ \E ok \in BOOLEAN :
         txs' = [txs EXCEPT ![t] =
                   IF ok THEN [@ EXCEPT !.pc = "exec"] ELSE Returned(@, ErrPrepare)]
    /\ UNCHANGED <<fetchVars, store, svariant, wal, gap, last, calls>>

\* The statement of caller t may write to db: no other transaction holds the
\* write lock.
CanWriteAlways(w, db, t) == TRUE
CanWrite(w, db, t) == w[db].owner \in {NoOwner, t}

\* stmt.Exec for the next bar hd.  It writes into the transaction's working
\* copy; on an error the function returns and the transaction is rolled back.
SaveExec(t) ==
    LET tx == txs[t]
        db == tx.db
    IN /\ tx.pc = "exec"
       /\ Len(tx.data) < tx.n
       /\ \/ /\ CanWrite(wal, db, t)
             /\ \E hd \in Bars(tx.symbol) :
                  LET base == IF wal[db].owner = t THEN wal[db].table ELSE store[db]
                  IN /\ wal' = [wal EXCEPT ![db] =
                                  [owner |-> t,
                                   table |-> Upsert(svariant, base, tx.symbol, hd)]]
                     /\ txs' = [txs EXCEPT ![t].data = Append(@, hd)]
             /\ store' = store
          \/ /\ txs' = [txs EXCEPT ![t] = Returned(@, ErrInsert)]
             /\ store' = RolledBack(store, wal, db, t)
             /\ wal' = Release(wal, db, t)
       /\ UNCHANGED <<fetchVars, svariant, gap, last, calls>>

\* tx.Commit() after the last bar.
SaveCommit(t) ==
    LET tx == txs[t]
        db == tx.db
    IN /\ tx.pc = "exec"
       /\ Len(tx.data) = tx.n
       /\ \/ /\ txs' = [txs EXCEPT ![t] = Returned(@, "")]
             /\ store' = IF wal[db].owner = t
                         THEN [store EXCEPT ![db] = Commit(@, wal[db].table)]
                         ELSE store
             /\ last' = NextLast(last, tx.symbol, tx.data, store[db], store'[db])
          \/ /\ txs' = [txs EXCEPT ![t] = Returned(@, ErrCommit)]
             /\ store' = RolledBack(store, wal, db, t)
             /\ last' = last
       /\ wal' = Release(wal, db, t)
       /\ UNCHANGED <<fetchVars, svariant, gap, calls>>

\* ------------------------------------- the gap-fill script (SpecGap)
\* Sessions run the statements of the script one by one, in autocommit mode,
\* while saveHistoricalData calls commit in between.
FallbackPrice == 100
GapDB == "BacktestDB"

Dates(table) == { r.date : r \in Rows(table) } \ {Null}
MinDate(table) ==
    IF Dates(table) = {} THEN Null
    ELSE CHOOSE d \in Dates(table) : \A e \in Dates(table) : d <= e
MaxDate(table) ==
    IF Dates(table) = {} THEN Null
    ELSE CHOOSE d \in Dates(table) : \A e \in Dates(table) : e <= d

\* WITH RECURSIVE date_range: the seed MIN(date), then date_unix + 86400
\* WHERE date_unix < MAX(date).
RECURSIVE DateRange(_, _)
DateRange(date_unix, max) ==
    {date_unix} \cup
      IF SqlLt(date_unix, max) THEN DateRange(date_unix + SecondsPerDay, max) ELSE {}

AllDates(table) == DateRange(MinDate(table), MaxDate(table))

\* (SELECT DISTINCT symbol) CROSS JOIN all_dates LEFT JOIN the table
\* ON s.symbol = shd.symbol AND d.date_unix = shd.date WHERE shd.date IS NULL
MissingDataAllPairs(table, all_dates) ==
    { [symbol |-> r.symbol, date |-> d] : r \in Rows(table), d \in all_dates }
MissingData(table, all_dates) ==
    { md \in { [symbol |-> r.symbol, date |-> d] : r \in Rows(table), d \in all_dates } :
        \A shd \in Rows(table) :
            ~(md.symbol = shd.symbol /\ SqlEq(md.date, shd.date)) \/ shd.date = Null }

\* COALESCE((SELECT close ... WHERE symbol = md.symbol AND date < md.date
\*           ORDER BY date DESC LIMIT 1), 100.0)
PriorCloseOldest(table, md) ==
    LET P == { r \in Rows(table) : r.symbol = md.symbol /\ SqlLt(r.date, md.date) }
    IN IF P = {} THEN FallbackPrice
       ELSE LET r == CHOOSE x \in P : \A y \in P : x.date <= y.date
            IN IF r.close = Null THEN FallbackPrice ELSE r.close
PriorClose(table, md) ==
    LET P == { r \in Rows(table) : r.symbol = md.symbol /\ SqlLt(r.date, md.date) }
    IN IF P = {} THEN FallbackPrice
       ELSE LET r == CHOOSE x \in P : \A y \in P : y.date <= x.date
            IN IF r.close = Null THEN FallbackPrice ELSE r.close

\* The row the INSERT ... SELECT produces for one missing pair; adj_close is
\* not in the column list and stays NULL.
FillRow(table, md) ==
    LET c == PriorClose(table, md)
    IN Row(md.symbol, md.date, c, c, c, c, Null, 0)

RECURSIVE InsertAll(_, _)
InsertAll(table, rows) ==
    IF rows = {} THEN table
    ELSE LET r == CHOOSE x \in rows : TRUE
         IN InsertAll(InsertRow(table, r), rows \ {r})

\* The INSERT ... SELECT statement: the SELECT reads the table as it was
\* before the statement; a PRIMARY KEY conflict aborts the statement and
\* undoes its inserts.
GapFillInsert(table, missing_data) ==
    IF \E md \in missing_data : Conflicts(table, md.symbol, md.date) # {}
    THEN table
    ELSE InsertAll(table, { FillRow(table, md) : md \in missing_data })

\* The whole script, statements 1 to 3, with no other writer in between.
GapRun(table) == GapFillInsert(table, MissingData(table, AllDates(table)))

\* The batches saveHistoricalData may be called with for symbol.
Batches(symbol) == UNION { [1..n -> Bars(symbol)] : n \in 0..MaxBars }

\* One whole call of saveHistoricalData by caller t, as the other sessions
\* see it: its writes appear at the commit or not at all.
Ingest(t) ==
    /\ calls.save < MaxCalls
    /\ \E symbol \in Symbols :
       \E data \in Batches(symbol), failure \in SaveFailures \cup {""} :
         LET r == SaveCall(svariant, store["BacktestDB"], symbol, data, failure)
         IN /\ store' = [store EXCEPT !["BacktestDB"] = r.table]
            /\ txs' = [txs EXCEPT ![t] = Returned(@, r.err)]
    /\ calls' = [calls EXCEPT !.save = @ + 1]
    /\ UNCHANGED <<fetchVars, svariant, wal, gap, last>>

\* 1. CREATE TEMPORARY TABLE all_dates
GapAllDates(g) ==
    /\ gap[g].pc = "idle"
    /\ calls.gap < MaxGapRuns
    /\ g = FirstSession \/ gap[FirstSession].pc # "idle"
    /\ gap' = [gap EXCEPT ![g] = [pc |-> "dates", all_dates |-> AllDates(store[GapDB]),
                                  missing_data |-> {}]]
    /\ calls' = [calls EXCEPT !.gap = @ + 1]
    /\ UNCHANGED <<fetchVars, store, svariant, txs, wal, last>>

\* 2. CREATE TEMPORARY TABLE missing_data; all_dates is not read after it.
GapMissing(g) ==
    /\ gap[g].pc = "dates"
    /\ gap' = [gap EXCEPT ![g] =
                 [pc |-> "missing", all_dates |-> {},
                  missing_data |-> MissingData(store[GapDB], gap[g].all_dates)]]
    /\ UNCHANGED <<fetchVars, store, svariant, txs, wal, last, calls>>

\* 3. INSERT INTO stock_historical_data ... SELECT ... FROM missing_data, in
\* autocommit mode; while a transaction holds the write lock it fails as
\* locked.
GapInsert(g) ==
    /\ gap[g].pc = "missing"
    /\ gap' = [gap EXCEPT ![g] = IdleSession]
    /\ \E locked \in BOOLEAN :
         store' = IF locked THEN store
                  ELSE [store EXCEPT ![GapDB] = GapFillInsert(@, gap[g].missing_data)]
    /\ UNCHANGED <<fetchVars, svariant, txs, wal, last, calls>>

NextGap ==
    \/ Ingest(FirstCaller)
    \/ \E g \in Sessions : GapAllDates(g)
    \/ \E g \in Sessions : GapMissing(g)
    \/ \E g \in Sessions : GapInsert(g)

SpecGap == InitStore /\ [][NextGap]_vars

\* One run of the whole script between the statements of the callers'
\* transactions, while none of them holds the write lock.
GapScript ==
    /\ calls.gap < MaxGapRuns
    /\ wal[GapDB].owner = NoOwner
    /\ store' = [store EXCEPT ![GapDB] = GapRun(@)]
    /\ calls' = [calls EXCEPT !.gap = @ + 1]
    /\ UNCHANGED <<fetchVars, svariant, txs, wal, gap, last>>

NextStore ==
    \/ GapScript
    \/ \E t \in Callers : SaveBegin(t)
    \/ \E t \in Callers : SavePrepare(t)
    \/ \E t \in Callers : SaveExec(t)
    \/ \E t \in Callers : SaveCommit(t)

SpecStore == InitStore /\ [][NextStore]_vars

\* ------------------------------------------------------ a batch (SpecBatch)
\* fillHistoricalDataHandler of the server ("web": one goroutine per symbol)
\* and fetchAllHistoricalData of main.go ("main": numWorkers workers reading
\* the jobs channel).  Job i is the i-th symbol of the batch.
numWorkers == 20
MaxJobs == 2

\* What the vendor answers for one symbol: the outcome of each HTTP attempt
\* (the last one repeats) and the body of a 200 response.
Script(outcomes, body) == [outcomes |-> outcomes, body |-> body]
OutcomeAt(script, k) ==
    IF k <= Len(script.outcomes) THEN script.outcomes[k]
    ELSE script.outcomes[Len(script.outcomes)]
Served == Body("json", FALSE, <<FullResult>>)
NoAdjclose == Body("json", FALSE, <<[FullResult EXCEPT !.Adjclose = <<>>]>>)
VendorScripts ==
    { Script(<<HTTPResponse(StatusOK)>>, Served),
      Script(<<HTTPResponse(StatusTooManyRequests), HTTPResponse(StatusOK)>>, Served),
      Script(<<HTTPResponse(StatusTooManyRequests)>>, NoBody),
      Script(<<HTTPResponse(404)>>, NoBody),
      Script(<<TransportFailure>>, NoBody),
      Script(<<HTTPResponse(StatusOK)>>, Body("badjson", FALSE, NoResult)),
      Script(<<HTTPResponse(StatusOK)>>, NoAdjclose) }

\* fetchHistoricalTickerData run to its return (or panic) against script; s
\* is the state of the call after the steps taken so far.
RECURSIVE RunFetch(_, _)
RunFetch(st, script) ==
    CHOOSE end \in
        { IF s.pc = "loop"
          THEN RunFetch(Attempt(s, OutcomeAt(script, s.attempts + 1)), script)
          ELSE IF s.pc = "read" THEN RunFetch(ReadBody(s, script.body), script)
          ELSE IF s.pc = "parse" THEN RunFetch(Parse(s), script)
          ELSE s : s \in {st} } : TRUE

FetchOf(b, i) == RunFetch(FetchStart(b.variant, b.symbols[i]), b.vendor[i])

Jobs(b) == 1..Len(b.symbols)
SymbolLists == UNION { [1..n -> Symbols] : n \in 0..MaxJobs }

\* The batch ["AAPL", "BAD"]: the vendor serves ScenarioBars well-formed bars
\* for AAPL and HTTP 404 for BAD.
ScenarioBars == 5
ScenarioSymbols == <<"AAPL", "BAD">>
ScenarioResult ==
    [Timestamp |-> MkTimestamps(ScenarioBars),
     Quote |-> << [Open |-> MkArr(Tag.Open, ScenarioBars),
                   High |-> MkArr(Tag.High, ScenarioBars),
                   Low |-> MkArr(Tag.Low, ScenarioBars),
                   Close |-> MkArr(Tag.Close, ScenarioBars),
                   Volume |-> MkArr(Tag.Volume, ScenarioBars)] >>,
     Adjclose |-> << [Adjclose |-> MkArr(Tag.Adjclose, ScenarioBars)] >>]
ScenarioVendor ==
    << Script(<<HTTPResponse(StatusOK)>>, Body("json", FALSE, <<ScenarioResult>>)),
       Script(<<HTTPResponse(404)>>, NoBody) >>

\* A batch about to start: its symbols in submission order and what the
\* vendor will answer for each.
NewBatch(v, tn, syms, vendor) ==
    [IdleBatch EXCEPT !.variant = v, !.tableName = tn, !.symbols = syms,
                      !.vendor = vendor, !.pc = "start",
                      !.taken = [i \in 1..Len(syms) |-> 0]]

InitBatch ==
    /\ FetchIdle
    /\ store = EmptyStores
    /\ TxIdle
    /\ \E v \in FetchVariants, tn \in TableNames :
         \/ \E syms \in SymbolLists :
            \E vendor \in [1..Len(syms) -> VendorScripts] :
              batch = NewBatch(v, tn, syms, vendor)
         \/ batch = NewBatch(v, tn, ScenarioSymbols, ScenarioVendor)
         \/ v = "web" /\ batch = [NewBatch(v, tn, ScenarioSymbols, ScenarioVendor)
                                     EXCEPT !.fromTable = TRUE]
         \/ v = "web" /\ batch = NewBatch(v, "", <<>>, <<>>)

\* main.go: no tickers is an error; otherwise the workers are started.  The
\* server's handler makes the results channel and goes on.
ErrNoTickers == "no active tickers found in table"
\* The handler: with neither a symbols parameter nor a table_name it answers
\* 400 and returns before anything is started.  (No symbols and no table name
\* is the request with neither parameter: strings.Split never returns an empty
\* list, and a table that lists no symbol still has its name.)
ErrNoParams == "Either 'symbols' or 'table_name' parameter is required."
BatchStartUnchecked ==
    /\ batch.pc = "start"
    /\ batch' = IF batch.variant = "main" /\ Len(batch.symbols) = 0
                THEN [batch EXCEPT !.pc = "rejected", !.err = ErrNoTickers]
                ELSE [batch EXCEPT !.pc = "running",
                                   !.source = IF batch.fromTable
                                              THEN DbToUse(batch.tableName) ELSE "",
                                   !.idle = IF batch.variant = "main" THEN numWorkers ELSE 0]
    /\ UNCHANGED <<fetch, hist, job, store, txVars>>

BatchStart ==
    /\ batch.pc = "start"
    /\ batch' = IF batch.variant = "main" /\ Len(batch.symbols) = 0
                THEN [batch EXCEPT !.pc = "rejected", !.err = ErrNoTickers]
                ELSE IF batch.variant = "web" /\ batch.symbols = <<>> /\ batch.tableName = ""
                THEN [batch EXCEPT !.pc = "rejected", !.err = ErrNoParams,
                                   !.rejections = @ + 1]
                ELSE [batch EXCEPT !.pc = "running",
                                   !.source = IF batch.fromTable
                                              THEN DbToUse(batch.tableName) ELSE "",
                                   !.idle = IF batch.variant = "main" THEN numWorkers ELSE 0]
    /\ UNCHANGED <<fetch, hist, job, store, txVars>>

\* The server after a rejected request: the handler has returned, and the next
\* request is served by a fresh call of it.
ServeNext ==
    /\ batch.pc = "rejected" /\ batch.variant = "web"
    /\ \E tn \in TableNames :
         batch' = [NewBatch("web", tn, ScenarioSymbols, ScenarioVendor)
                     EXCEPT !.rejections = batch.rejections]
    /\ UNCHANGED <<fetch, hist, job, store, txVars>>

\* The server: wg.Add(1); go func(s string) {...}(symbol) for the next symbol.
HandlerSpawn ==
    /\ batch.pc = "running" /\ batch.variant = "web"
    /\ batch.next < Len(batch.symbols)
    /\ batch' = [batch EXCEPT !.next = @ + 1, !.running = @ \cup {batch.next + 1},
                              !.taken[batch.next + 1] = @ + 1]
    /\ UNCHANGED <<fetch, hist, job, store, txVars>>

\* main.go: jobs <- ticker for the next ticker (the channel has room for all).
PoolSubmit ==
    /\ batch.pc = "running" /\ batch.variant = "main"
    /\ batch.next < Len(batch.symbols)
    /\ batch' = [batch EXCEPT !.next = @ + 1, !.queue = Append(@, batch.next + 1)]
    /\ UNCHANGED <<fetch, hist, job, store, txVars>>

\* main.go: close(jobs)
PoolClose ==
    /\ batch.pc = "running" /\ batch.variant = "main"
    /\ batch.next = Len(batch.symbols) /\ ~batch.closed
    /\ batch' = [batch EXCEPT !.closed = TRUE]
    /\ UNCHANGED <<fetch, hist, job, store, txVars>>

\* main.go: a waiting worker receives the next ticker from jobs.
PoolTake ==
    /\ batch.pc = "running" /\ batch.variant = "main"
    /\ batch.idle > 0 /\ batch.queue # <<>>
    /\ batch' = [batch EXCEPT !.idle = @ - 1, !.queue = Tail(@),
                              !.running = @ \cup {Head(batch.queue)},
                              !.taken[Head(batch.queue)] = @ + 1]
    /\ UNCHANGED <<fetch, hist, job, store, txVars>>

\* main.go: a waiting worker finds jobs closed and empty: wg.Done().
PoolExit ==
    /\ batch.pc = "running" /\ batch.variant = "main"
    /\ batch.idle > 0 /\ batch.queue = <<>> /\ batch.closed
    /\ batch' = [batch EXCEPT !.idle = @ - 1, !.exited = @ + 1]
    /\ UNCHANGED <<fetch, hist, job, store, txVars>>

\* make(chan ..., len(symbols)): the capacity of the results channel.  Nothing
\* receives from it before every worker is done (the server) or before the
\* jobs are all submitted (main.go); the model lets the results pile up until
\* the tally.
ResultsCapUnbuffered(b) == 0
ResultsCap(b) == Len(b.symbols)

\* The body of job i: fetch, save, send the result (the send waits for room
\* in the results channel).  A panic in the fetch ends the process with the
\* batch unfinished.
Work(i) ==
    /\ batch.pc = "running"
    /\ i \in batch.running
    /\ Len(batch.results) < ResultsCap(batch)
    /\ \E st \in {FetchOf(batch, i)} :
         IF st.panicked
         THEN /\ batch' = [batch EXCEPT !.pc = "crashed"]
              /\ store' = store
         ELSE \E failure \in SaveFailures \cup {""} :
              \E r \in {JobBody(st, batch.tableName, store, failure)} :
                 /\ store' = r.stores
                 /\ batch' = [batch EXCEPT
                                !.running = @ \ {i},
                                !.idle = IF batch.variant = "main" THEN @ + 1 ELSE @,
                                !.results = Append(@, r.result),
                                !.sent = Append(@, i)]
    /\ UNCHANGED <<fetch, hist, job, txVars>>

\* The tally of the drained results.
RECURSIVE SuccessCount(_)
SuccessCount(results) ==
    IF results = <<>> THEN 0
    ELSE (IF Head(results).err = "" THEN 1 ELSE 0) + SuccessCount(Tail(results))

\* failures[res.symbol] = res.err.Error(): a map, the later entry of a symbol
\* replaces the earlier one.
FailureMap(results) ==
    LET F == { k \in 1..Len(results) : results[k].err # "" }
    IN [s \in { results[k].symbol : k \in F } |->
          LET k == CHOOSE x \in F : /\ results[x].symbol = s
                                     /\ \A y \in F : results[y].symbol = s => y <= x
          IN results[k].err]

\* errors = append(errors, result.Err)
ErrorList(results) == SelectSeq(results, LAMBDA r : r.err # "")

\* wg.Wait() returns: every wg.Add(1) was matched by a wg.Done().  The server
\* waits after its spawn loop for every job's goroutine; main.go waits, in a
\* goroutine of its own, for the numWorkers workers.
WgWaitWithoutBarrier(b) ==
    IF b.variant = "web" THEN b.next = Len(b.symbols) ELSE b.closed
WgWait(b) ==
    IF b.variant = "web" THEN b.next = Len(b.symbols) /\ b.running = {}
    ELSE b.exited = numWorkers

\* The server: wg.Wait() returned, close(results), the tally and the JSON
\* response.
HandlerRespond ==
    /\ batch.pc = "running" /\ batch.variant = "web"
    /\ WgWait(batch)
    /\ batch' = [batch EXCEPT
                   !.pc = "done",
                   !.closes = @ + 1,
                   !.summary = [status |-> "completed",
                                processed |-> Len(batch.symbols),
                                success_count |-> SuccessCount(batch.results),
                                failures |-> FailureMap(batch.results)]]
    /\ UNCHANGED <<fetch, hist, job, store, txVars>>

\* main.go: every worker called wg.Done(), results is closed, the drain loop
\* ends and the counts are logged.
PoolFinish ==
    /\ batch.pc = "running" /\ batch.variant = "main"
    /\ WgWait(batch)
    /\ batch' = [batch EXCEPT
                   !.pc = "done",
                   !.closes = @ + 1,
                   !.summary = [processed |-> Len(batch.symbols),
                                success_count |-> SuccessCount(batch.results),
                                errors |-> ErrorList(batch.results)]]
    /\ UNCHANGED <<fetch, hist, job, store, txVars>>

\* Sequential processing, a pool of one worker: the jobs of b from job i on
\* run one after the other in submission order, job k meeting the store
\* failure fails[k]; a panic ends the process before the later jobs start.
RECURSIVE SeqRun(_, _, _, _)
SeqRun(b, fails, i, acc) ==
    IF i > Len(b.symbols) \/ acc.crashed THEN acc
    ELSE LET st == FetchOf(b, i)
         IN IF st.panicked THEN [acc EXCEPT !.crashed = TRUE]
            ELSE LET r == JobBody(st, b.tableName, acc.stores, fails[i])
                 IN SeqRun(b, fails, i + 1,
                           [stores |-> r.stores, results |-> Append(acc.results, r.result),
                            crashed |-> FALSE])
Sequential(b, fails) ==
    SeqRun(b, fails, 1, [stores |-> EmptyStores, results |-> <<>>, crashed |-> FALSE])

NextBatch ==
    \/ BatchStart
    \/ ServeNext
    \/ HandlerSpawn
    \/ PoolSubmit
    \/ PoolClose
    \/ PoolTake
    \/ PoolExit
    \/ \E i \in 1..MaxJobs : Work(i)
    \/ HandlerRespond
    \/ PoolFinish

SpecBatch == InitBatch /\ [][NextBatch]_vars

\* The Go scheduler runs every goroutine that can take a step, every HTTP
\* attempt returns and every store transaction returns: a batch that can
\* move does move.
SpecBatchFair == SpecBatch /\ WF_vars(NextBatch)

\* ------------------------------------- a batch larger than the pool (SpecCrowd)
\* One more symbol than main.go has workers; the vendor answers HTTP 404 for
\* each, so the jobs differ in their symbol only.
CrowdJobs == numWorkers + 1
CrowdSymbols == [i \in 1..CrowdJobs |-> "T" \o ToString(i)]
CrowdVendor == [i \in 1..CrowdJobs |-> Script(<<HTTPResponse(404)>>, NoBody)]

InitCrowd ==
    /\ FetchIdle
    /\ store = EmptyStores
    /\ TxIdle
    /\ \E v \in FetchVariants, tn \in TableNames :
         batch = NewBatch(v, tn, CrowdSymbols, CrowdVendor)

\* The jobs are interchangeable: of the running jobs the one submitted first
\* finishes first.
WorkInOrder ==
    \E i \in 1..CrowdJobs : (\A j \in batch.running : i <= j) /\ Work(i)

NextCrowd ==
    \/ BatchStart
    \/ HandlerSpawn
    \/ PoolSubmit
    \/ PoolClose
    \/ PoolTake
    \/ PoolExit
    \/ WorkInOrder
    \/ HandlerRespond
    \/ PoolFinish

SpecCrowd == InitCrowd /\ [][NextCrowd]_vars

\* -------------------------------------------------- claims about one fetch
Is429(o) == ~o.err /\ o.StatusCode = StatusTooManyRequests
IsOK(o) == ~o.err /\ o.StatusCode = StatusOK
IsTransport(o) == o.err
IsOtherStatus(o) == ~o.err /\ o.StatusCode \notin {StatusOK, StatusTooManyRequests}

\* The retry loop was left by "break" on a 200 response and the code after it
\* is running or has run.
PastLoopOn200 ==
    /\ fetch.pc \in {"read", "parse", "done"}
    /\ fetch.resp = Resp(StatusOK)
    /\ fetch.err \notin {ErrTransport, ErrRateLimit}
    /\ fetch.pc \in {"parse", "done"} => fetch.deferred

WellFormed(body) ==
    body.kind = "json" /\ ~body.Error /\ body.Result = <<FullResult>>

\* C4: (retry loop of cmd/web/main.go) 429 on the first K < 3 attempts and 200
\* on attempt K+1: the loop ends on the 200 after exactly K+1 attempts, and a
\* well-formed body then yields a nil error and its bars.  429 on 3
\* consecutive attempts: exactly 3 attempts, the rate-limit error, no bars, and
\* the job leaves every store as it was and reports a failure.
C4_RetryExhaustion429 ==
    fetch.variant = "web" =>
      /\ \A K \in 0..(maxRetries - 1) :
           ( /\ Len(hist) >= K + 1
             /\ \A k \in 1..K : Is429(hist[k])
             /\ IsOK(hist[K + 1]) )
           => /\ Len(hist) = K + 1
              /\ fetch.attempts = K + 1
              /\ PastLoopOn200
              /\ (fetch.pc = "done" /\ WellFormed(fetch.body))
                    => (fetch.err = "" /\ Len(fetch.data) = MaxLen /\ ~fetch.panicked)
      /\ ( /\ Len(hist) >= maxRetries
           /\ \A k \in 1..maxRetries : Is429(hist[k]) )
         => /\ Len(hist) = maxRetries
            /\ fetch.attempts = maxRetries
            /\ fetch.pc = "done" /\ ~fetch.panicked
            /\ fetch.err = ErrRateLimit
            /\ fetch.data = NoData
            /\ store = EmptyStores
            /\ job.pc # "crashed"
            /\ job.pc = "done" =>
                 job.result = Failure(fetch.ticker, WrapFetch("web", ErrRateLimit))

C4_Witness ==
    /\ fetch.variant = "web"
    /\ hist = <<HTTPResponse(429), HTTPResponse(429), HTTPResponse(429)>>
    /\ job.pc = "done"
    /\ job.result.err # ""

\* C5: a status other than 200 and 429, on whichever attempt it arrives, ends
\* the fetch at once with the status error: it is the last attempt made.
C5_NoRetryOnOtherStatus ==
    \A n \in 1..Len(hist) :
      IsOtherStatus(hist[n]) =>
        /\ Len(hist) = n
        /\ fetch.attempts = n
        /\ fetch.pc = "done" /\ ~fetch.panicked
        /\ fetch.data = NoData
        /\ fetch.err = IF fetch.variant = "main"
                       THEN ErrStatusMain(fetch.ticker, hist[n].StatusCode)
                       ELSE ErrStatus(hist[n].StatusCode)

C5_Witness ==
    /\ fetch.variant = "web"
    /\ hist = <<HTTPResponse(404)>>
    /\ fetch.pc = "done"
    /\ fetch.attempts = 1
    /\ fetch.err = "API request failed with status 404"

\* C6: transport failures on the first K < 3 attempts and 200 on attempt
\* K+1: the code after the request runs after exactly K+1 attempts.  A fetch
\* that ends with every attempt failed at transport level made exactly 3
\* attempts and returns the transport error.
C6_TransportRetry ==
    /\ \A K \in 0..(maxRetries - 1) :
         ( /\ Len(hist) >= K + 1
           /\ \A k \in 1..K : IsTransport(hist[k])
           /\ IsOK(hist[K + 1]) )
         => /\ Len(hist) = K + 1
            /\ fetch.attempts = K + 1
            /\ PastLoopOn200
    /\ ( /\ fetch.pc = "done"
         /\ hist # <<>>
         /\ \A k \in 1..Len(hist) : IsTransport(hist[k]) )
       => /\ Len(hist) = maxRetries
          /\ fetch.attempts = maxRetries
          /\ ~fetch.panicked
          /\ fetch.err \in {ErrTransport, ErrFetchMain}
          /\ fetch.data = NoData

\* The length of the shortest of the seven parallel arrays of a result that
\* has a quote and an adjclose series.
Min2(a, b) == IF a < b THEN a ELSE b
ShortestLen(result) ==
    LET q == result.Quote[1]
    IN Min2(Len(result.Timestamp),
       Min2(Len(q.Open), Min2(Len(q.High), Min2(Len(q.Low),
       Min2(Len(q.Close), Min2(Len(q.Volume), Len(result.Adjclose[1].Adjclose)))))))

HasSeries(body) ==
    /\ body.kind = "json" /\ ~body.Error
    /\ Len(body.Result) > 0
    /\ Len(body.Result[1].Quote) > 0
    /\ Len(body.Result[1].Adjclose) > 0

\* C9: for a decoded envelope with a quote and an adjclose series, whatever
\* the lengths of the seven arrays, the parser ends without an index fault
\* and returns exactly m = min(lengths) bars, the i-th built from index i of
\* every array, in timestamp order.
C9_ParserTruncation ==
    (fetch.pc = "done" /\ HasSeries(fetch.body)) =>
      LET result == fetch.body.Result[1]
          q == result.Quote[1]
          m == ShortestLen(result)
      IN /\ ~fetch.panicked
         /\ Len(fetch.data) = m
         /\ \A i \in 1..m :
              fetch.data[i] =
                HistoricalData(fetch.ticker, result.Timestamp[i], q.Open[i], q.High[i],
                               q.Low[i], q.Close[i], result.Adjclose[1].Adjclose[i],
                               q.Volume[i])
         /\ (fetch.variant = "web" \/ Len(result.Timestamp) > 0) => fetch.err = ""

\* Timestamps and four quote arrays of full length, one array shorter.
C9_Witness ==
    /\ fetch.pc = "done"
    /\ HasSeries(fetch.body)
    /\ Len(fetch.body.Result[1].Timestamp) = MaxLen
    /\ Len(fetch.body.Result[1].Quote[1].Open) = MaxLen
    /\ Len(fetch.body.Result[1].Quote[1].High) = MaxLen
    /\ Len(fetch.body.Result[1].Quote[1].Low) = MaxLen
    /\ Len(fetch.body.Result[1].Quote[1].Close) = MaxLen
    /\ Len(fetch.body.Result[1].Quote[1].Volume) = MaxLen - 1
    /\ Len(fetch.body.Result[1].Adjclose[1].Adjclose) = MaxLen
    /\ Len(fetch.data) = MaxLen - 1

\* A decoded envelope with no result, or whose first result has no quote
\* series or no adjclose series.
MissingSeries(body) ==
    /\ body.kind = "json"
    /\ \/ Len(body.Result) = 0
       \/ Len(body.Result[1].Quote) = 0
       \/ Len(body.Result[1].Adjclose) = 0

\* C10: a decoded envelope with no result, or whose first result has no quote
\* series or no adjclose series, makes the fetch return an error and no bars;
\* the process does not fault.
C10_EnvelopeValidation ==
    (fetch.pc = "done" /\ MissingSeries(fetch.body)) =>
      /\ ~fetch.panicked
      /\ fetch.err # ""
      /\ fetch.data = NoData
      /\ job.pc # "crashed"

\* ------------------------------------------- claims about the bar store
\* Caller t's call returned in this step.
ReturnsAt(t) == txs'[t] # txs[t] /\ txs'[t].pc = "done"

\* C1: saveHistoricalData is all-or-nothing.  A step in which a call returns
\* nil leaves the store as it was just before with every bar of the batch
\* written, in order; every other step of a call (a failure of Begin, of
\* Prepare, of the k-th Exec or of Commit included) leaves the store as it
\* was.
C1_AllOrNothing ==
    [][\A t \in Callers :
         txs'[t] # txs[t] =>
           IF InCall(txs[t]) /\ ReturnsAt(t) /\ txs'[t].err = ""
           THEN /\ Len(txs[t].data) = txs[t].n
                /\ store' = [store EXCEPT ![txs[t].db] =
                               ExecAll(svariant, @, txs[t].symbol, txs[t].data)]
           ELSE store' = store]_vars

DistinctDates(data) ==
    \A i, j \in 1..Len(data) : i # j => data[i].Date # data[j].Date

\* A call whose Commit failed after all MaxBars bars, of distinct dates, had
\* been written, while the other caller's batch is in the store.
C1_Witness ==
    \E t, u \in Callers :
        /\ txs[t].pc = "done" /\ txs[t].err = ErrCommit
        /\ Len(txs[t].data) = MaxBars /\ DistinctDates(txs[t].data)
        /\ txs[u].pc = "done" /\ txs[u].err = "" /\ Len(txs[u].data) = 1
        /\ store[txs[u].db] = ExecAll(svariant, EmptyTable, txs[u].symbol, txs[u].data)

\* C7: no two rows of a store share (symbol, date): rows with the same
\* symbol and date are one row, held once.
C7_Uniqueness ==
    \A db \in DBs :
        \A r1, r2 \in Rows(store[db]) :
            r1.symbol = r2.symbol /\ r1.date = r2.date =>
                r1 = r2 /\ store[db][r1] = 1

\* C8: a second run of the batch that was persisted last, on the store as
\* that run left it, leaves the store as it was after the first run.
C8_IdempotentUpsert == last.count >= 2 => last.same

\* A batch of MaxBars bars of distinct dates was persisted a second time.
C8_Witness ==
    /\ last.count = 2
    /\ Len(last.data) = MaxBars
    /\ DistinctDates(last.data)
    /\ RowCount(last.first) >= MaxBars

\* ------------------------------------------------------ claims about a batch
Count(seq, x) == Cardinality({ k \in 1..Len(seq) : seq[k] = x })
ResultOf(b, i) == b.results[CHOOSE k \in 1..Len(b.sent) : b.sent[k] = i]
RowsOf(table, symbol) == { r \in Rows(table) : r.symbol = symbol }
DistinctSymbols(b) ==
    \A i, j \in Jobs(b) : i # j => b.symbols[i] # b.symbols[j]

\* C2: a batch of J jobs produces exactly J results.  No job is taken twice
\* and none yields more than one result; the batch is not cut short; when it
\* is done every job was taken once and yielded one result, there are J
\* results and the summary's processed count is J.
C2_ExactlyJResults ==
    /\ batch.pc # "crashed"
    /\ \A i \in Jobs(batch) : batch.taken[i] <= 1 /\ Count(batch.sent, i) <= batch.taken[i]
    /\ batch.pc = "done" =>
         /\ Len(batch.results) = Len(batch.symbols)
         /\ \A i \in Jobs(batch) : batch.taken[i] = 1 /\ Count(batch.sent, i) = 1
         /\ batch.summary.processed = Len(batch.symbols)

\* C3: per-ticker failure isolation.  The batch is not aborted; when a batch
\* of distinct symbols is done, a job that did not fail has the success
\* result and its symbol has exactly the rows of its own vendor data, as in a
\* run without the failed jobs, and the symbol of a failed job has no rows.
C3_FailureIsolation ==
    /\ batch.pc # "crashed"
    /\ batch.pc = "done" /\ DistinctSymbols(batch) =>
         \A i \in Jobs(batch) :
            LET s == batch.symbols[i]
                st == FetchOf(batch, i)
                db == DbToSave(batch.variant, batch.tableName, s)
            IN IF ResultOf(batch, i).err = ""
               THEN /\ ResultOf(batch, i) = Success(s)
                    /\ st.err = ""
                    /\ RowsOf(store[db], s) =
                         RowsOf(ExecAll(batch.variant, EmptyTable, s, st.data), s)
                    /\ \A o \in DBs \ {db} : RowsOf(store[o], s) = {}
               ELSE \A o \in DBs : RowsOf(store[o], s) = {}

\* C11 (as stated): in the end-to-end scenario the failure recorded for BAD
\* is the fetch error itself, "API request failed with status 404".
IsScenario(b) ==
    b.variant = "web" /\ b.symbols = ScenarioSymbols /\ b.vendor = ScenarioVendor
ScenarioDone ==
    /\ batch.pc = "done" /\ IsScenario(batch)
    /\ \E k \in 1..Len(batch.results) : batch.results[k] = Success("AAPL")
ScenarioStore ==
    LET db == DbToSave(batch.variant, batch.tableName, "AAPL")
    IN /\ RowCount(store[db]) = ScenarioBars
       /\ Cardinality(RowsOf(store[db], "AAPL")) = ScenarioBars
       /\ \A o \in DBs \ {db} : store[o] = EmptyTable
       /\ \A o \in DBs : RowsOf(store[o], "BAD") = {}
ScenarioSummary(message) ==
    [status |-> "completed", processed |-> Len(ScenarioSymbols), success_count |-> 1,
     failures |-> [s \in {"BAD"} |-> message]]
C11_EndToEnd_AsStated ==
    ScenarioDone =>
        /\ batch.summary = ScenarioSummary("API request failed with status 404")
        /\ ScenarioStore

\* C11: in the end-to-end scenario (jobs AAPL and BAD, AAPL's ScenarioBars
\* bars fetched and persisted, HTTP 404 for BAD) the handler's summary is
\* status "completed", processed 2, success_count 1 and one failure, for BAD,
\* whose message is the fetch error wrapped by the job: "failed to fetch
\* data: API request failed with status 404"; the store holds exactly
\* ScenarioBars rows, all of AAPL, and none of BAD.
C11_EndToEnd ==
    ScenarioDone =>
        /\ batch.summary =
             ScenarioSummary("failed to fetch data: API request failed with status 404")
        /\ ScenarioStore

\* The scenario ran to its summary with AAPL persisted.
C11_Witness ==
    /\ ScenarioDone
    /\ batch.summary.processed = Len(ScenarioSymbols)
    /\ batch.summary.success_count = 1
    /\ DOMAIN batch.summary.failures = {"BAD"}
    /\ Len(FetchOf(batch, 1).data) = ScenarioBars

\* C12: every summary the handler returns has processed = the number of
\* submitted jobs, success_count = the number of jobs whose fetch and persist
\* both succeeded, and one failures entry per failed job, keyed by the job's
\* symbol and carrying its error; hence success_count + the number of
\* failures entries = processed.
Succeeded(b) == { i \in Jobs(b) : ResultOf(b, i).err = "" }
Failed(b) == { i \in Jobs(b) : ResultOf(b, i).err # "" }
C12_SummaryTally ==
    batch.pc = "done" /\ batch.variant = "web" =>
        LET sum == batch.summary
        IN /\ sum.processed = Len(batch.symbols)
           /\ sum.success_count = Cardinality(Succeeded(batch))
           /\ Cardinality(DOMAIN sum.failures) = Cardinality(Failed(batch))
           /\ \A i \in Failed(batch) :
                 /\ batch.symbols[i] \in DOMAIN sum.failures
                 /\ sum.failures[batch.symbols[i]] = ResultOf(batch, i).err
           /\ sum.success_count + Cardinality(DOMAIN sum.failures) = sum.processed

\* --------------------------------------------- claims about the gap-fill script
\* The days d = min + k * 86400 between the least and the greatest date of
\* the table.
EnumeratedDays(table) ==
    IF Dates(table) = {} THEN {}
    ELSE { MinDate(table) + k * SecondsPerDay :
             k \in 0..((MaxDate(table) - MinDate(table)) \div SecondsPerDay) }
HasRow(table, S, d) == \E r \in Rows(table) : r.symbol = S /\ r.date = d
LastCloseBefore(table, S, d) ==
    LET P == { r \in Rows(table) : r.symbol = S /\ r.date # Null /\ r.date < d }
    IN IF P = {} THEN FallbackPrice
       ELSE (CHOOSE r \in P : \A q \in P : q.date <= r.date).close
Filled(before, after) ==
    \A S \in { r.symbol : r \in Rows(before) }, d \in EnumeratedDays(before) :
        ~HasRow(before, S, d) =>
            LET N == { r \in Rows(after) : r.symbol = S /\ r.date = d }
                c == LastCloseBefore(before, S, d)
            IN /\ Cardinality(N) = 1
               /\ \A r \in N : /\ after[r] = 1
                                /\ r.open = c /\ r.high = c /\ r.low = c /\ r.close = c
                                /\ r.volume = 0
\* Session g holds the missing pairs a run started on the present store
\* computes: no write came between its statements.
Undisturbed(g) ==
    gap[g].missing_data = MissingData(store[GapDB], AllDates(store[GapDB]))

\* C13: a run of the script whose statements no other write came between
\* inserts, for every symbol S of the store and every enumerated day d
\* between the least and the greatest date on which S has no row, exactly
\* one row (S, d) whose open, high, low and close are the close of S's
\* latest row before d (FallbackPrice if S has none) and whose volume is 0,
\* so every day of a run of missing days carries the close of the last bar
\* before the run; or its INSERT fails as locked and writes nothing.
C13_GapFillCorrect ==
    [][\A g \in Sessions :
         gap[g].pc = "missing" /\ gap'[g].pc = "idle" /\ Undisturbed(g) =>
             \/ store' = store
             \/ Filled(store[GapDB], store'[GapDB])]_vars

\* The store holds a symbol with vendor bars on day 1 and day 3 and, on day
\* 2, the row the script made from the close of day 1; no run is in progress.
C13_Witness ==
    /\ \A g \in Sessions : gap[g].pc = "idle"
    /\ calls.gap >= 1
    /\ \E r1, r2, r3 \in Rows(store[GapDB]) :
         /\ r1.symbol = r2.symbol /\ r2.symbol = r3.symbol
         /\ r1.date = SecondsPerDay /\ r1.volume # 0
         /\ r3.date = 3 * SecondsPerDay /\ r3.volume # 0
         /\ r2 = Row(r1.symbol, 2 * SecondsPerDay, r1.close, r1.close, r1.close,
                     r1.close, Null, 0)
         /\ r3.close # r1.close

\* C14: a second run of the script right after a first one, with no ingest
\* in between, finds no missing (symbol, day) pair and leaves the store
\* exactly as the first run left it, whatever the store held before.
C14_GapFillIdempotent ==
    LET once == GapRun(store[GapDB])
    IN /\ MissingData(once, AllDates(once)) = {}
       /\ GapRun(once) = once

\* A session has just run the script undisturbed on a store with a gap and
\* filled it.
C14_Witness ==
    /\ \A g \in Sessions : gap[g].pc = "idle"
    /\ calls.gap >= 1
    /\ \E r \in Rows(store[GapDB]) : r.volume = 0 /\ r.adj_close = Null /\ r.date # Null
    /\ GapRun(store[GapDB]) = store[GapDB]

\* C15: at every moment of a batch, whatever the number of submitted
\* symbols, at most numWorkers jobs are being fetched or persisted.
C15_BoundedConcurrency == Cardinality(batch.running) <= numWorkers

\* C16: the results channel is closed at most once, and only when no job is
\* in flight, every job has sent its one result and (main.go) every worker
\* has exited; nothing is sent after the close; a summary exists only after
\* the close, so never while a job is in flight.
AllSent(b) ==
    /\ Len(b.results) = Len(b.symbols)
    /\ \A i \in Jobs(b) : Count(b.sent, i) = 1
C16_JoinBarrier ==
    [][/\ batch'.closes <= 1
       /\ batch'.closes > batch.closes =>
            /\ batch.running = {} /\ batch.queue = <<>>
            /\ AllSent(batch)
            /\ batch.variant = "main" => batch.exited = numWorkers /\ batch.idle = 0
       /\ batch.closes >= 1 => batch'.results = batch.results /\ batch'.sent = batch.sent
       /\ batch'.summary # NoSummary =>
            batch'.closes = 1 /\ batch'.running = {} /\ AllSent(batch')]_vars

\* A batch of MaxJobs jobs was summarised after its results channel was
\* closed.
C16_Witness ==
    /\ batch.pc = "done" /\ batch.closes = 1
    /\ Len(batch.symbols) = MaxJobs /\ Len(batch.results) = MaxJobs
    /\ batch.summary.processed = MaxJobs

\* C17: whenever a job is running there is room in the results channel for
\* its result and for that of every other running job, so no send waits;
\* and a batch that is under way always has a step to take: a running job
\* can send its result, or the submitter, a waiting worker or the
\* aggregator can move.
C17_NoBlockingSend ==
    /\ Len(batch.results) + Cardinality(batch.running) <= ResultsCap(batch)
    /\ batch.pc \in {"start", "running"} =>
         \/ batch.running # {} /\ Len(batch.results) < ResultsCap(batch)
         \/ ENABLED BatchStart \/ ENABLED HandlerSpawn \/ ENABLED PoolSubmit
         \/ ENABLED PoolClose \/ ENABLED PoolTake \/ ENABLED PoolExit
         \/ ENABLED HandlerRespond \/ ENABLED PoolFinish

\* The last job of the server's batch is about to send while the results of
\* all the others sit undrained in the channel.
C17_Witness ==
    /\ batch.variant = "web" /\ batch.pc = "running"
    /\ Len(batch.symbols) = MaxJobs
    /\ Cardinality(batch.running) = 1
    /\ Len(batch.results) = MaxJobs - 1
    /\ ResultsCap(batch) = MaxJobs

\* C18: for distinct symbols, fixed vendor responses and a fixed store
\* behaviour per symbol, the final store contents and the summary do not
\* depend on the interleaving of the jobs: they are those of sequential
\* processing, one job after the other in submission order.
Final(b) == b.pc \in {"done", "crashed"}
\* fails is a store behaviour per job under which every finished job of b
\* reports what it reported.
Explains(b, fails) ==
    \A i \in Jobs(b) :
        Count(b.sent, i) = 1 =>
            JobBody(FetchOf(b, i), b.tableName, EmptyStores, fails[i]).result = ResultOf(b, i)
SameSummary(b, results) ==
    /\ b.summary.processed = Len(b.symbols)
    /\ b.summary.success_count = SuccessCount(results)
    /\ IF b.variant = "web" THEN b.summary.failures = FailureMap(results)
       ELSE /\ Len(b.summary.errors) = Len(ErrorList(results))
            /\ \A e \in Jobs(b) :
                  e <= Len(b.summary.errors) =>
                     Count(b.summary.errors, b.summary.errors[e]) =
                     Count(ErrorList(results), b.summary.errors[e])
C18_ThroughputOnly ==
    Final(batch) /\ DistinctSymbols(batch) =>
        \E fails \in [Jobs(batch) -> SaveFailures \cup {""}] :
            /\ Explains(batch, fails)
            /\ LET seq == Sequential(batch, fails)
               IN /\ store = seq.stores
                  /\ (batch.pc = "crashed") = seq.crashed
                  /\ batch.pc = "done" => SameSummary(batch, seq.results)

\* C19: under fair scheduling every started batch finishes: every job
\* yields its result, every worker exits and the caller gets the summary.
C19_BatchTerminates ==
    batch.pc = "running" ~>
        /\ batch.pc = "done" /\ batch.summary # NoSummary
        /\ AllSent(batch)
        /\ batch.variant = "main" => batch.exited = numWorkers

\* C20: no two jobs of one batch carry the same symbol: the jobs that were
\* started so far are for pairwise different symbols.
C20_DeduplicatedJobs ==
    \A i, j \in Jobs(batch) :
        i # j /\ batch.taken[i] >= 1 /\ batch.taken[j] >= 1 =>
            batch.symbols[i] # batch.symbols[j]

\* C21: a call of the server's handler that carries neither a symbol list nor
\* a table name is answered with the configuration error and nothing else: it
\* starts no job, asks the vendor nothing, leaves both stores as they were, and
\* the only step after it is the serving of the next call.
NeitherSupplied ==
    batch.variant = "web" /\ batch.symbols = <<>> /\ batch.tableName = ""
NothingStarted(b) ==
    /\ b.next = 0 /\ b.running = {} /\ b.queue = <<>>
    /\ b.results = <<>> /\ b.sent = <<>> /\ b.summary = NoSummary
C21_Rejects ==
    NeitherSupplied /\ batch.pc = "start" =>
        /\ batch'.pc = "rejected" /\ batch'.err = ErrNoParams
        /\ NothingStarted(batch')
        /\ UNCHANGED <<store, fetch, hist, job>>
C21_ServesOn ==
    NeitherSupplied /\ batch.pc = "rejected" =>
        /\ batch'.pc = "start" /\ batch'.symbols # <<>>
        /\ UNCHANGED <<store, fetch, hist, job>>
SameKey(hd1, hd2) == hd1.Symbol = hd2.Symbol /\ hd1.Date = hd2.Date
LastBar(data, k) ==
    data[CHOOSE j \in k..Len(data) :
           /\ SameKey(data[j], data[k])
           /\ \A i \in (j + 1)..Len(data) : ~SameKey(data[i], data[k])]
Overwrites(table, variant, symbol, data) ==
    \A k \in 1..Len(data) :
        LET row == ExecArgs(variant, symbol, LastBar(data, k))
        IN /\ row \in Rows(table) /\ table[row] = 1
           /\ \A r \in Rows(table) :
                 r.symbol = row.symbol /\ r.date = row.date => r = row
C22_UpsertOverwrites ==
    [][\A t \in Callers :
         InCall(txs[t]) /\ ReturnsAt(t) /\ txs'[t].err = "" =>
             Overwrites(store'[txs[t].db], svariant, txs[t].symbol, txs[t].data)]_vars
\* The store holds a row of the gap-fill script, and a transaction has written
\* two bars with the key of that row, of different content, into its working
\* copy, which now holds the second bar's row under that key.
IsGapRow(r) == r.date # Null /\ r.adj_close = Null /\ r.volume = 0
C22_Witness ==
    \E t \in Callers :
        LET tx == txs[t]
        IN /\ tx.pc = "exec" /\ Len(tx.data) = 2 /\ wal[tx.db].owner = t
           /\ SameKey(tx.data[1], tx.data[2]) /\ tx.data[1] # tx.data[2]
           /\ \E g \in Rows(store[tx.db]) :
                 /\ IsGapRow(g) /\ g.symbol = tx.symbol /\ g.date = tx.data[2].Date
                 /\ g \notin Rows(wal[tx.db].table)
           /\ ExecArgs(svariant, tx.symbol, tx.data[2]) \in Rows(wal[tx.db].table)

\* C23: an envelope whose chart.error is not null ends the fetch with the API
\* error, whatever chart.result holds: the 200 response that carried it is the
\* last attempt made, no bar is returned, and the job writes nothing and
\* reports the failure.
ErrorEnvelope == fetch.body.kind = "json" /\ fetch.body.Error
C23_ApiErrorTerminal ==
    ErrorEnvelope /\ fetch.pc = "done" =>
        /\ fetch.err = ErrAPI /\ fetch.data = NoData /\ ~fetch.panicked
        /\ Len(hist) = fetch.attempts /\ IsOK(hist[Len(hist)])
        /\ store = EmptyStores
        /\ job.pc # "crashed"
        /\ job.pc = "done" =>
             job.result = Failure(fetch.ticker, WrapFetch(fetch.variant, ErrAPI))
\* The envelope carried an error next to a full result, and the job is done.
C23_Witness ==
    /\ fetch.body = Body("json", TRUE, <<FullResult>>)
    /\ job.pc = "done" /\ job.result.err # ""

\* C24: (retry loop of cmd/web/main.go) the backoff sleeps of a fetch are, in
\* order, one per failed attempt a that is not the third: a seconds after a
\* transport failure, 2a seconds after a 429.  Nothing is slept after the third
\* attempt, after another status or after a 200.  The sum is at most 3 s when
\* only transport failures occurred and at most 6 s in any case.
IsBackoff(ms) == ms # InterRequestDelay
Backoffs == SelectSeq(fetch.slept, IsBackoff)
Retried(k) == k < maxRetries /\ (IsTransport(hist[k]) \/ Is429(hist[k]))
RECURSIVE SumSeq(_)
SumSeq(q) == IF q = <<>> THEN 0 ELSE Head(q) + SumSeq(Tail(q))
C24_Backoff ==
    fetch.variant = "web" =>
      /\ Len(Backoffs) = Cardinality({ k \in 1..Len(hist) : Retried(k) })
      /\ \A a \in 1..Len(Backoffs) :
            /\ Retried(a)
            /\ Backoffs[a] = IF IsTransport(hist[a]) THEN a * 1000 ELSE a * 2000
      /\ SumSeq(Backoffs) <= 6000
      /\ (\A k \in 1..Len(hist) : ~Is429(hist[k])) => SumSeq(Backoffs) <= 3000
\* A fetch slept 1 s after a transport failure and 4 s after a 429, and was
\* then served.
C24_Witness ==
    /\ fetch.variant = "web" /\ fetch.pc = "done" /\ fetch.err = ""
    /\ Len(hist) = maxRetries /\ IsTransport(hist[1]) /\ Is429(hist[2])
    /\ Backoffs = <<1000, 4000>>

\* C25: the days a run of the script enumerates on a store that holds dates
\* are days min + k * 86400 between the least and the greatest date of the
\* store, both included, and a run whose statements no other write came
\* between leaves the least and the greatest date of the store as they were.
C25_GapDateRange ==
    [][\A g \in Sessions :
         /\ gap[g].pc = "idle" /\ gap'[g].pc = "dates" /\ Dates(store[GapDB]) # {} =>
               gap'[g].all_dates \subseteq EnumeratedDays(store[GapDB])
         /\ gap[g].pc = "missing" /\ gap'[g].pc = "idle" /\ Undisturbed(g)
              /\ Dates(store[GapDB]) # {} =>
               /\ MinDate(store'[GapDB]) = MinDate(store[GapDB])
               /\ MaxDate(store'[GapDB]) = MaxDate(store[GapDB])]_vars

\* C26: every row the ingest stored (the rows with an adj_close; the gap-fill
\* script leaves that column NULL) has a date that is a UTC midnight: a
\* multiple of 86400.
C26_MidnightAligned ==
    \A db \in DBs : \A r \in Rows(store[db]) :
        r.adj_close # Null => r.date % SecondsPerDay = 0

\* C27: no step of an ingest (begin, prepare, exec, commit, or the rollback
\* of a failed call) and no run of the gap-fill script removes a key from a
\* store: the (symbol, date) pairs of the committed rows only grow.
Keys(table) == { <<r.symbol, r.date>> : r \in Rows(table) }
C27_NeverDeleted ==
    [][\A db \in DBs : Keys(store[db]) \subseteq Keys(store'[db])]_vars
\* After an ingest and a run of the script, a second ingest wrote a bar with
\* the key of a gap-fill row and failed at its commit: the store still holds
\* the gap-fill row and the bars of the first ingest.
C27_Witness ==
    \E t \in Callers :
        /\ txs[t].pc = "done" /\ txs[t].err = ErrCommit /\ Len(txs[t].data) >= 1
        /\ calls.save = MaxCalls /\ calls.gap >= 1
        /\ \E g \in Rows(store[txs[t].db]) :
              /\ IsGapRow(g) /\ g.symbol = txs[t].symbol /\ g.date = txs[t].data[1].Date
        /\ Cardinality(Keys(store[txs[t].db])) >= 4

\* C28: a fetch that returned no error and no bars is a successful job that
\* leaves every store as it was: persisting the empty batch returns nil.
C28_EmptyBatchNoOp ==
    job.pc = "done" /\ fetch.err = "" /\ fetch.data = NoData =>
        /\ job.result = Success(fetch.ticker)
        /\ store = EmptyStores

\* C29: a fetch makes at most maxRetries HTTP attempts, whatever mix of
\* transport failures, 429s, other statuses and 200s the attempts meet; (retry
\* loop of the server copies) it fails by exhaustion exactly when the third
\* attempt is a transport failure or a 429, and then with the error of that
\* attempt's kind, whatever kinds the first two failures had.
C29_SharedAttemptCounter ==
    /\ fetch.attempts <= maxRetries /\ Len(hist) = fetch.attempts
    /\ fetch.variant = "web" =>
         /\ fetch.err = ErrTransport <=>
               Len(hist) = maxRetries /\ IsTransport(hist[maxRetries])
         /\ fetch.err = ErrRateLimit <=>
               Len(hist) = maxRetries /\ Is429(hist[maxRetries])
         /\ fetch.err \in {ErrTransport, ErrRateLimit} =>
               /\ fetch.pc = "done" /\ fetch.data = NoData
               /\ \A k \in 1..(maxRetries - 1) : IsTransport(hist[k]) \/ Is429(hist[k])
\* Transport failure, 429, transport failure: exhausted with the transport
\* error; the job reported it.
C29_Witness ==
    /\ fetch.variant = "web"
    /\ Len(hist) = maxRetries
    /\ IsTransport(hist[1]) /\ Is429(hist[2]) /\ IsTransport(hist[3])
    /\ fetch.err = ErrTransport
    /\ job.pc = "done" /\ job.result.err # ""

\* C30: when a fetch has returned, the body of every HTTP response it received
\* has been closed exactly once.
C30_BodyClosedOnce ==
    fetch.pc = "done" /\ ~fetch.panicked =>
        /\ Len(fetch.closes) = Cardinality({ k \in 1..Len(hist) : ~IsTransport(hist[k]) })
        /\ \A k \in 1..Len(fetch.closes) : fetch.closes[k] = 1

\* C31: (retry loop of the server copies) the loop is left either by a return
\* with an error or by the break on a 200: whenever the code after the loop
\* runs or has run, the response it holds is not nil and has status 200, so
\* the deferred Close and the body reader never meet a nil or non-200
\* response, whatever the outcomes of the attempts were.
C31_LoopExit ==
    fetch.variant = "web" /\ fetch.pc # "loop" =>
        \/ /\ IsOK(hist[Len(hist)])
           /\ fetch.resp = Resp(StatusOK)
           /\ fetch.panicked => fetch.deferred
           /\ fetch.pc \in {"read", "parse"} => fetch.err = ""
        \/ /\ ~IsOK(hist[Len(hist)])
           /\ fetch.pc = "done" /\ ~fetch.panicked
           /\ fetch.err \in {ErrTransport, ErrRateLimit, ErrStatus(hist[Len(hist)].StatusCode)}
           /\ fetch.data = NoData /\ ~fetch.deferred
\* The loop was left by the break on its third iteration, after a transport
\* failure and a 429.
C31_Witness ==
    /\ fetch.variant = "web" /\ fetch.pc = "read"
    /\ Len(hist) = maxRetries
    /\ IsTransport(hist[1]) /\ Is429(hist[2]) /\ IsOK(hist[maxRetries])

\* C32: the INSERT of a run of the gap-fill script, whatever was committed
\* since the run computed its missing pairs, keeps every row the store held,
\* with every field as it was, and adds rows only under keys (symbol, date)
\* that no row of the store had.
Added(before, after) ==
    { r \in Rows(after) : r \notin Rows(before) \/ after[r] > before[r] }
C32_GapFillOnlyAdds ==
    [][\A g \in Sessions :
         gap[g].pc = "missing" /\ gap'[g].pc = "idle" =>
             /\ \A r \in Rows(store[GapDB]) :
                   r \in Rows(store'[GapDB]) /\ store'[GapDB][r] >= store[GapDB][r]
             /\ \A r \in Added(store[GapDB], store'[GapDB]) :
                   ~HasRow(store[GapDB], r.symbol, r.date)
             /\ \A db \in DBs \ {GapDB} : store'[db] = store[db]]_vars

\* C33: no symbol has two rows whose dates fall on the same UTC calendar day
\* (date div 86400): the gap-fill script adds no row for a symbol on a day on
\* which the symbol has a vendor bar.
Day(date) == date \div SecondsPerDay
C33_OneRowPerDay ==
    \A r1, r2 \in Rows(store[GapDB]) :
        /\ r1.symbol = r2.symbol
        /\ r1.date # Null /\ r2.date # Null
        /\ Day(r1.date) = Day(r2.date)
        => r1 = r2

\* C34: two calls that persist batches of the same symbol at the same time,
\* on a store nothing else has written to, leave the store as the two
\* transactions applied one after the other in some order would: each key of
\* the batch committed second holds that batch's last bar of the key, each
\* other key of the batch committed first holds that batch's last bar of the
\* key, every row once, and nothing else; a call that failed contributes
\* nothing.
Applied(tx) == IF tx.err = "" THEN tx.data ELSE NoData
BarRows(variant, symbol, data) ==
    { ExecArgs(variant, symbol, LastBar(data, k)) : k \in 1..Len(data) }
SerialRows(variant, symbol, first, second) ==
    BarRows(variant, symbol, second) \cup
      { r \in BarRows(variant, symbol, first) :
          \A q \in BarRows(variant, symbol, second) :
              ~(q.symbol = r.symbol /\ q.date = r.date) }
BothDone ==
    /\ \A t \in Callers : txs[t].pc = "done"
    /\ \A t, u \in Callers : txs[t].symbol = txs[u].symbol /\ txs[t].db = txs[u].db
    /\ calls.save = Cardinality(Callers) /\ calls.gap = 0
C34_LastCommitWins ==
    BothDone =>
        \E t, u \in Callers :
            /\ t # u
            /\ Rows(store[txs[t].db]) =
                 SerialRows(svariant, txs[t].symbol, Applied(txs[t]), Applied(txs[u]))
            /\ \A r \in Rows(store[txs[t].db]) : store[txs[t].db][r] = 1
\* Both calls committed batches of MaxBars bars that share a key with
\* different content.
C34_Witness ==
    /\ BothDone
    /\ \A t \in Callers : txs[t].err = "" /\ Len(txs[t].data) = MaxBars
    /\ \E t, u \in Callers :
          /\ t # u
          /\ \E j, k \in 1..MaxBars :
                SameKey(txs[t].data[j], txs[u].data[k]) /\ txs[t].data[j] # txs[u].data[k]

\* C35: (the server's handler) a job that finishes writes to one store only,
\* the SPXL store if and only if the table name is "spxl_tickers" or the
\* symbol is "SPXL", the default store otherwise: a successful job leaves all
\* its bars there, a failed job writes nothing, and the other store is as it
\* was.  The symbols of a source table were read from the SPXL store if and
\* only if the table name is "spxl_tickers".
Finishes(i) == i \in batch.running /\ i \notin batch'.running
Destination(tableName, symbol) ==
    IF tableName = "spxl_tickers" \/ symbol = "SPXL" THEN "SPXLBacktestDB" ELSE "BacktestDB"
C35_JobRouted(i) ==
    LET s == batch.symbols[i]
        db == Destination(batch.tableName, s)
        res == batch'.results[Len(batch'.results)]
    IN /\ \A o \in DBs \ {db} : store'[o] = store[o]
       /\ IF res.err = ""
          THEN /\ BarRows("web", s, FetchOf(batch, i).data) \subseteq Rows(store'[db])
               /\ \A r \in Rows(store'[db]) :
                     r \in Rows(store[db]) \/ r \in BarRows("web", s, FetchOf(batch, i).data)
          ELSE store' = store
C35_SourceRouted ==
    batch.variant = "web" /\ batch.pc \in {"running", "done"} =>
        batch.source = IF ~batch.fromTable THEN ""
                       ELSE IF batch.tableName = "spxl_tickers" THEN "SPXLBacktestDB"
                       ELSE "BacktestDB"
C35_Routing ==
    /\ []C35_SourceRouted
    /\ [][batch.variant = "web" =>
            \A i \in 1..MaxJobs : Finishes(i) => C35_JobRouted(i)]_vars
\* A batch of the default table with AAPL and SPXL, both served: AAPL's bars
\* are in the default store only and SPXL's in the SPXL store only.
C35_Witness ==
    /\ batch.variant = "web" /\ batch.pc = "done"
    /\ batch.tableName = "sp500_tickers" /\ batch.symbols = <<"AAPL", "SPXL">>
    /\ \A k \in 1..Len(batch.results) : batch.results[k].err = ""
    /\ RowsOf(store["BacktestDB"], "AAPL") # {} /\ RowsOf(store["BacktestDB"], "SPXL") = {}
    /\ RowsOf(store["SPXLBacktestDB"], "SPXL") # {} /\ RowsOf(store["SPXLBacktestDB"], "AAPL") = {}

====
